---- MODULE Spec2Model ----
(***************************************************************************)
(* Model of pyve's shell-config mutation and flat-file stores.             *)
(*                                                                         *)
(* Texts are sequences of one-character strings, so that the string        *)
(* operations of the code (splitlines, join, strip, startswith, `in`,      *)
(* split) are computed character by character as Python computes them.     *)
(* Line boundaries are "\n" only: no text of the model holds another       *)
(* line-boundary character.  File reads and writes are assumed to succeed. *)
(***************************************************************************)
EXTENDS Integers, Sequences, FiniteSets, TLC

VARIABLES
    config,             \* the shell config file
    last,               \* the shell config operation that ran last
    global_env_file,    \* ~/.vex/venv_all_env
    atv_history_file,   \* ~/.vex/atv_history
    assoc_file,         \* ~/.vex/venv_pdirs
    existing,           \* the activate scripts present on disk
    slast,              \* the store operation that ran last
    last_venv_file,     \* ~/.vex/last_venv
    olast,              \* the activate_venv or delete_venv call that ran last
    procs               \* the concurrent runs of _update_global_tracking

cfgvars == <<config, last>>
storevars == <<global_env_file, atv_history_file, assoc_file, existing, slast>>
orchvars == <<last_venv_file, olast>>
racevars == <<procs>>
vars == <<config, last, global_env_file, atv_history_file, assoc_file, existing, slast,
          last_venv_file, olast, procs>>

(***************************************************************************)
(* Bounds of the model.                                                    *)
(***************************************************************************)
\* largest number of lines of an initial shell config file
MaxLines == 2

\* number of environment names in use
MaxNames == 2

(***************************************************************************)
(* Python string operations.                                               *)
(***************************************************************************)
\* characters str.strip()/rstrip() remove
Whitespace == {" ", "\t", "\n", "\r", "\f"}

\* s.startswith(p)
startswith(s, p) ==
    /\ Len(p) <= Len(s)
    /\ SubSeq(s, 1, Len(p)) = p

\* sub in s
contains(s, sub) ==
    \E i \in 1..(Len(s) - Len(sub) + 1) : SubSeq(s, i, i + Len(sub) - 1) = sub

\* s.count(c) for a single character c
count(s, c) == Cardinality({i \in 1..Len(s) : s[i] = c})

\* s.rstrip()
RECURSIVE rstrip(_)
rstrip(s) ==
    IF s = <<>> THEN <<>>
    ELSE IF s[Len(s)] \in Whitespace THEN rstrip(SubSeq(s, 1, Len(s) - 1))
    ELSE s

\* s.lstrip()
RECURSIVE lstrip(_)
lstrip(s) ==
    IF s = <<>> THEN <<>>
    ELSE IF s[1] \in Whitespace THEN lstrip(Tail(s))
    ELSE s

\* s.strip()
strip(s) == lstrip(rstrip(s))

\* index of the first occurrence of character c in s, 0 when absent
find(s, c) ==
    LET at == {i \in 1..Len(s) : s[i] = c}
    IN  IF at = {} THEN 0 ELSE CHOOSE i \in at : \A j \in at : i <= j

\* s.splitlines(): no trailing empty line for a final newline
RECURSIVE splitlines(_)
splitlines(s) ==
    IF s = <<>> THEN <<>>
    ELSE LET k == find(s, "\n")
         IN  IF k = 0 THEN <<s>>
             ELSE <<SubSeq(s, 1, k - 1)>> \o splitlines(SubSeq(s, k + 1, Len(s)))

\* "\n".join(lines)
RECURSIVE join(_)
join(lines) ==
    IF lines = <<>> THEN <<>>
    ELSE IF Len(lines) = 1 THEN lines[1]
    ELSE lines[1] \o <<"\n">> \o join(Tail(lines))

\* s.split(c, 1): one or two parts
split1(s, c) ==
    LET k == find(s, c)
    IN  IF k = 0 THEN <<s>>
        ELSE <<SubSeq(s, 1, k - 1), SubSeq(s, k + 1, Len(s))>>

(***************************************************************************)
(* Literals of the shell integration code.                                 *)
(***************************************************************************)
\* Path.home()
home == <<"/","h">>

ve_marker == <<"#"," ","V","i","r","t","u","a","l"," ","E","n","v","i","r","o","n","m","e","n","t"," ","M","a","n","a","g","e","r"," ","(","v","e",")"," ","I","n","t","e","g","r","a","t","i","o","n">>

phrase_manager == <<"V","i","r","t","u","a","l"," ","E","n","v","i","r","o","n","m","e","n","t"," ","M","a","n","a","g","e","r">>

phrase_enables == <<"T","h","i","s"," ","e","n","a","b","l","e","s"," ","p","r","o","p","e","r"," ","a","c","t","i","v","a","t","i","o","n"," ","o","f"," ","v","i","r","t","u","a","l"," ","e","n","v","i","r","o","n","m","e","n","t","s">>

pat_ve_call == <<"v","e","(",")">>

pat_function_ve_call == <<"f","u","n","c","t","i","o","n"," ","v","e","(",")">>

pat_function_ve == <<"f","u","n","c","t","i","o","n"," ","v","e">>

pat_auto_activate == <<"_","v","e","_","a","u","t","o","_","a","c","t","i","v","a","t","e">>

pat_add_zsh_hook == <<"a","d","d","-","z","s","h","-","h","o","o","k">>

pat_fi == <<"f","i">>

pat_ve == <<"v","e">>

pat_end == <<"e","n","d">>

pat_hash == <<"#">>

Shells == {"zsh", "fish", "bash"}

target_filename(shell) ==
    IF shell = "zsh"
    THEN <<"s","h","e","l","l","_","i","n","t","e","g","r","a","t","i","o","n","_","z","s","h",".","s","h">>
    ELSE IF shell = "fish"
    THEN <<"s","h","e","l","l","_","i","n","t","e","g","r","a","t","i","o","n","_","f","i","s","h",".","f","i","s","h">>
    ELSE <<"s","h","e","l","l","_","i","n","t","e","g","r","a","t","i","o","n","_","b","a","s","h",".","s","h">>

\* str(Path.home() / '.config' / 'pyve' / target_filename)
target_script(shell) ==
    home \o <<"/",".","c","o","n","f","i","g","/","p","y","v","e","/">> \o target_filename(shell)

source_line(shell) == <<"s","o","u","r","c","e"," ">> \o target_script(shell)

(***************************************************************************)
(* clean_zshrc: the line scan that removes ve integrations.                *)
(***************************************************************************)
clean_init ==
    [new_lines |-> <<>>, in_ve_section |-> FALSE, in_ve_function |-> FALSE,
     brace_count |-> 0, removed |-> {}]

\* the test of clean_zshrc for an integration marker line
is_marker_line(line) ==
    \/ contains(line, phrase_manager)
    \/ contains(line, phrase_enables)
    \/ startswith(strip(line), ve_marker)

\* the test of clean_zshrc for a ve function definition
is_ve_function_line(line) ==
    /\ contains(line, pat_ve_call) \/ contains(line, pat_function_ve_call)
    /\ ~startswith(strip(line), pat_hash)

\* is_section_end that takes every blank line for the end of a section
is_section_end_any_blank(lines, i) == strip(lines[i]) = <<>>

\* the test of clean_zshrc for the blank line that ends a section
is_section_end(lines, i) ==
    /\ strip(lines[i]) = <<>>
    /\ i + 1 <= Len(lines)
    /\ strip(lines[i + 1]) # <<>>
    /\ ~startswith(strip(lines[i + 1]), pat_hash)
    /\ ~contains(lines[i + 1], pat_ve)
    /\ ~contains(lines[i + 1], pat_auto_activate)

\* clean_step whose function-body mode also ends at a blank line, as marker
\* mode does
clean_step_body_ends_at_blank(lines, i, st) ==
    LET line == lines[i]
        drop == [st EXCEPT !.removed = @ \cup {i}]
    IN  IF is_marker_line(line)
        THEN [drop EXCEPT !.in_ve_section = TRUE]
        ELSE IF is_ve_function_line(line)
        THEN [drop EXCEPT !.in_ve_function = TRUE,
                          !.brace_count = count(line, "{") - count(line, "}")]
        ELSE IF st.in_ve_function
        THEN LET bc == st.brace_count + count(line, "{") - count(line, "}")
             IN  [drop EXCEPT !.brace_count = bc,
                              !.in_ve_function = ~(bc <= 0 \/ strip(line) = <<>>)]
        ELSE IF st.in_ve_section
        THEN IF \/ contains(line, pat_auto_activate)
                \/ contains(line, pat_add_zsh_hook)
                \/ startswith(strip(line), pat_fi)
             THEN drop
             ELSE IF is_section_end(lines, i)
             THEN [st EXCEPT !.in_ve_section = FALSE,
                             !.new_lines = Append(@, line)]
             ELSE drop
        ELSE [st EXCEPT !.new_lines = Append(@, line)]

\* clean_step with a section that keeps its ordinary lines: only the marker
\* line, the helper lines and the function body are dropped
clean_step_keep_section(lines, i, st) ==
    LET line == lines[i]
        drop == [st EXCEPT !.removed = @ \cup {i}]
    IN  IF is_marker_line(line)
        THEN [drop EXCEPT !.in_ve_section = TRUE]
        ELSE IF is_ve_function_line(line)
        THEN [drop EXCEPT !.in_ve_function = TRUE,
                          !.brace_count = count(line, "{") - count(line, "}")]
        ELSE IF st.in_ve_function
        THEN LET bc == st.brace_count + count(line, "{") - count(line, "}")
             IN  [drop EXCEPT !.brace_count = bc,
                              !.in_ve_function = ~(bc <= 0)]
        ELSE IF st.in_ve_section
        THEN IF \/ contains(line, pat_auto_activate)
                \/ contains(line, pat_add_zsh_hook)
                \/ startswith(strip(line), pat_fi)
             THEN drop
             ELSE IF is_section_end(lines, i)
             THEN [st EXCEPT !.in_ve_section = FALSE,
                             !.new_lines = Append(@, line)]
             ELSE [st EXCEPT !.new_lines = Append(@, line)]
        ELSE [st EXCEPT !.new_lines = Append(@, line)]

\* one iteration of the while loop of clean_zshrc on line i (1-based);
\* removed collects the indices of the lines that are not kept
clean_step(lines, i, st) ==
    LET line == lines[i]
        drop == [st EXCEPT !.removed = @ \cup {i}]
    IN  IF is_marker_line(line)
        THEN [drop EXCEPT !.in_ve_section = TRUE]
        ELSE IF is_ve_function_line(line)
        THEN [drop EXCEPT !.in_ve_function = TRUE,
                          !.brace_count = count(line, "{") - count(line, "}")]
        ELSE IF st.in_ve_function
        THEN LET bc == st.brace_count + count(line, "{") - count(line, "}")
             IN  [drop EXCEPT !.brace_count = bc,
                              !.in_ve_function = ~(bc <= 0)]
        ELSE IF st.in_ve_section
        THEN IF \/ contains(line, pat_auto_activate)
                \/ contains(line, pat_add_zsh_hook)
                \/ startswith(strip(line), pat_fi)
             THEN drop
             ELSE IF is_section_end(lines, i)
             THEN [st EXCEPT !.in_ve_section = FALSE,
                             !.new_lines = Append(@, line)]
             ELSE drop
        ELSE [st EXCEPT !.new_lines = Append(@, line)]

\* clean_scan that stops at the end of the first section and keeps the rest
\* of the file as it is
RECURSIVE clean_scan_first_region(_, _, _)
clean_scan_first_region(lines, i, st) ==
    IF i > Len(lines) THEN st
    ELSE LET nx == clean_step(lines, i, st)
         IN  IF st.in_ve_section /\ ~nx.in_ve_section
             THEN [nx EXCEPT !.new_lines = @ \o SubSeq(lines, i + 1, Len(lines))]
             ELSE clean_scan_first_region(lines, i + 1, nx)

RECURSIVE clean_scan(_, _, _)
clean_scan(lines, i, st) ==
    IF i > Len(lines) THEN st
    ELSE clean_scan(lines, i + 1, clean_step(lines, i, st))

\* the state of the scan at the end of the file
clean_result(content) == clean_scan(splitlines(content), 1, clean_init)

\* clean_zshrc_content that ends the file with a newline, as the stores do
clean_zshrc_content_newline(content) ==
    join(clean_result(content).new_lines) \o <<"\n">>

\* cleaned_content of clean_zshrc
clean_zshrc_content(content) == join(clean_result(content).new_lines)

(***************************************************************************)
(* install_shell_integration (install_shell_integration.py): removal of an *)
(* existing integration on reinstall, then the append of the block.        *)
(***************************************************************************)
\* remove_step that drops the marker line only and keeps the lines after it
remove_step_marker_only(st, line, shell) ==
    LET line_stripped == strip(line)
    IN  IF contains(line, ve_marker)
        THEN [st EXCEPT !.skip_lines = TRUE]
        ELSE IF st.skip_lines /\ (line_stripped = <<>> \/ line_stripped = pat_end)
        THEN [st EXCEPT !.skip_lines = FALSE]
        ELSE IF line_stripped = source_line(shell) \/ contains(line, target_script(shell))
        THEN st
        ELSE [st EXCEPT !.new_lines = Append(@, line)]

\* one iteration of the removal loop; st = [new_lines, skip_lines]
remove_step(st, line, shell) ==
    LET line_stripped == strip(line)
    IN  IF contains(line, ve_marker)
        THEN [st EXCEPT !.skip_lines = TRUE]
        ELSE IF st.skip_lines /\ (line_stripped = <<>> \/ line_stripped = pat_end)
        THEN [st EXCEPT !.skip_lines = FALSE]
        ELSE IF line_stripped = source_line(shell) \/ contains(line, target_script(shell))
        THEN st
        ELSE IF ~st.skip_lines
        THEN [st EXCEPT !.new_lines = Append(@, line)]
        ELSE st

RECURSIVE remove_scan(_, _, _, _)
remove_scan(lines, i, st, shell) ==
    IF i > Len(lines) THEN st
    ELSE remove_scan(lines, i + 1, remove_step(st, lines[i], shell), shell)

\* current_content after the removal of the existing integration
remove_existing(current_content, shell) ==
    join(remove_scan(splitlines(current_content), 1,
                     [new_lines |-> <<>>, skip_lines |-> FALSE], shell).new_lines)

has_ve_function(current_content) ==
    \/ contains(current_content, pat_ve_call)
    \/ contains(current_content, pat_function_ve_call)
    \/ contains(current_content, pat_function_ve)

has_source_line(current_content, shell) == contains(current_content, source_line(shell))

has_marker(current_content) == contains(current_content, ve_marker)

\* new_content: the block appended to the right-stripped content
append_block(current_content, shell) ==
    rstrip(current_content) \o <<"\n", "\n">> \o ve_marker \o <<"\n">>
        \o source_line(shell) \o <<"\n">>

\* the standalone installer from the read of the config file on;
\* response is the answer to the reinstall prompt
install_shell_integration(current_content, shell, response) ==
    IF has_source_line(current_content, shell) \/ has_marker(current_content)
    THEN IF ~response
         THEN [result |-> "skipped", content |-> current_content]
         ELSE [result |-> "installed",
               content |-> append_block(remove_existing(current_content, shell), shell)]
    ELSE IF has_ve_function(current_content)
    THEN [result |-> "custom", content |-> current_content]
    ELSE [result |-> "installed", content |-> append_block(current_content, shell)]

\* VenvManager.install_shell_integration from the read of the config file on
VenvManager_install_shell_integration(current_content, shell) ==
    IF has_source_line(current_content, shell) \/ has_marker(current_content)
    THEN [result |-> "skipped", content |-> current_content]
    ELSE IF has_ve_function(current_content)
    THEN [result |-> "custom", content |-> current_content]
    ELSE [result |-> "installed", content |-> append_block(current_content, shell)]

(***************************************************************************)
(* The flat-file stores of VenvManager.  A file is a record: exists tells  *)
(* whether it is there, text is its content.                               *)
(***************************************************************************)
NoFile == [exists |-> FALSE, text |-> <<>>]

\* self.venvs_dir = Path.home() / ".vex" / "venvs"
venvs_dir == home \o <<"/",".","v","e","x">> \o <<"/","v","e","n","v","s">>

\* str(venv_path / "bin" / "activate") for venv_path = self.venvs_dir / env_name
activate_script_of(env_name) ==
    venvs_dir \o <<"/">> \o env_name \o <<"/","b","i","n","/","a","c","t","i","v","a","t","e">>

\* lines.append(...); write_text("\n".join(lines) + "\n")
write_lines(lines) == [exists |-> TRUE, text |-> join(lines) \o <<"\n">>]

\* [line for line in lines if not line.startswith(prefix)]
without_prefix(lines, prefix) ==
    LET keep(line) == ~startswith(line, prefix)
    IN  SelectSeq(lines, keep)

\* _update_global_tracking that puts the new entry first
update_global_tracking_prepend(file, env_name, activate_script) ==
    LET lines == IF file.exists
                 THEN without_prefix(splitlines(file.text), env_name \o <<" ">>)
                 ELSE <<>>
    IN  write_lines(<<env_name \o <<" ">> \o activate_script>> \o lines)

\* _update_global_tracking that appends without removing the existing entry
update_global_tracking_append_only(file, env_name, activate_script) ==
    LET lines == IF file.exists THEN splitlines(file.text) ELSE <<>>
    IN  write_lines(Append(lines, env_name \o <<" ">> \o activate_script))

\* VenvManager._update_global_tracking
update_global_tracking(file, env_name, activate_script) ==
    LET lines == IF file.exists
                 THEN without_prefix(splitlines(file.text), env_name \o <<" ">>)
                 ELSE <<>>
    IN  write_lines(Append(lines, env_name \o <<" ">> \o activate_script))

\* _remove_from_global_tracking that keeps no line at all
remove_from_global_tracking_all(file, env_name) ==
    IF file.exists THEN write_lines(<<>>) ELSE file

\* VenvManager._remove_from_global_tracking
remove_from_global_tracking(file, env_name) ==
    IF file.exists
    THEN write_lines(without_prefix(splitlines(file.text), env_name \o <<" ">>))
    ELSE file

\* s.split(c): a part between every two occurrences of c
RECURSIVE split_all(_, _)
split_all(s, c) ==
    LET k == find(s, c)
    IN  IF k = 0 THEN <<s>>
        ELSE <<SubSeq(s, 1, k - 1)>> \o split_all(SubSeq(s, k + 1, Len(s)), c)

\* entry_parts that splits on every space instead of the first one only
entry_parts_split_all(line) == split_all(strip(line), " ")

\* line.strip().split(" ", 1)
entry_parts(line) == split1(strip(line), " ")

\* the first line at or after i whose name is env_name, 0 when there is none
RECURSIVE first_entry(_, _, _)
first_entry(lines, i, env_name) ==
    IF i > Len(lines) THEN 0
    ELSE IF Len(entry_parts(lines[i])) = 2 /\ entry_parts(lines[i])[1] = env_name
    THEN i
    ELSE first_entry(lines, i + 1, env_name)

\* VenvManager._get_env_from_tracking: found is FALSE for None
get_env_from_tracking(file, env_name) ==
    IF ~file.exists THEN [found |-> FALSE, value |-> <<>>]
    ELSE LET k == first_entry(splitlines(file.text), 1, env_name)
         IN  IF k = 0 THEN [found |-> FALSE, value |-> <<>>]
             ELSE [found |-> TRUE, value |-> entry_parts(splitlines(file.text)[k])[2]]

\* activate_path and Path(activate_path).exists()
tracked_and_present(tracking, scripts, env_name) ==
    LET activate_path == get_env_from_tracking(tracking, env_name)
    IN  /\ activate_path.found
        /\ activate_path.value # <<>>
        /\ activate_path.value \in scripts

\* VenvManager._update_directory_mapping, the update of one of the two files
update_directory_mapping(file, current_dir, env_name) ==
    LET lines == IF file.exists
                 THEN without_prefix(splitlines(file.text), current_dir \o <<":">>)
                 ELSE <<>>
    IN  write_lines(Append(lines, current_dir \o <<":">> \o env_name))

\* the loop of list_venvs / list_venvs_conda_style: the lines kept as valid
RECURSIVE valid_lines(_, _)
valid_lines(original_lines, scripts) ==
    IF original_lines = <<>> THEN <<>>
    ELSE LET line == Head(original_lines)
             parts == entry_parts(line)
             rest == valid_lines(Tail(original_lines), scripts)
         IN  IF Len(parts) # 2 THEN rest
             ELSE IF parts[2] \in scripts THEN <<line>> \o rest
             ELSE rest

\* VenvManager.list_venvs: the file it leaves, whether a clean-up was
\* reported, and the removed_count it reports
list_venvs(file, scripts) ==
    IF ~file.exists \/ Len(file.text) = 0
    THEN [file |-> file, reported |-> FALSE, removed_count |-> 0]
    ELSE LET original_lines == splitlines(file.text)
             valid == valid_lines(original_lines, scripts)
         IN  IF Len(valid) < Len(original_lines)
             THEN [file |-> write_lines(valid), reported |-> TRUE,
                   removed_count |-> Len(original_lines) - Len(valid)]
             ELSE [file |-> file, reported |-> FALSE, removed_count |-> 0]

\* VenvManager.list_venvs_conda_style: the same pruning as list_venvs
list_venvs_conda_style(file, scripts) ==
    IF ~file.exists \/ Len(file.text) = 0
    THEN [file |-> file, reported |-> FALSE, removed_count |-> 0]
    ELSE LET original_lines == splitlines(file.text)
             valid == valid_lines(original_lines, scripts)
         IN  IF Len(valid) < Len(original_lines)
             THEN [file |-> write_lines(valid), reported |-> TRUE,
                   removed_count |-> Len(original_lines) - Len(valid)]
             ELSE [file |-> file, reported |-> FALSE, removed_count |-> 0]

\* Path(current_venv).name: the part after the last "/"
path_name(path) ==
    LET at == {i \in 1..Len(path) : path[i] = "/"}
    IN  IF at = {} THEN path
        ELSE SubSeq(path, (CHOOSE i \in at : \A j \in at : j <= i) + 1, Len(path))

\* the for loop of auto_activate_for_directory over the lines read at its
\* start; st = [atv, done, emitted]: the history file as rewritten so far,
\* whether the loop returned, and the activate path of the suggestion
RECURSIVE auto_activate_scan(_, _, _, _, _, _, _)
auto_activate_scan(lines, i, st, directory, current_venv_name, tracking, scripts) ==
    IF i > Len(lines) \/ st.done THEN st
    ELSE LET line == lines[i]
             parts == split1(line, ":")
             next ==
                 IF Len(parts) = 2 /\ parts[1] = directory /\ current_venv_name # parts[2]
                 THEN IF tracked_and_present(tracking, scripts, parts[2])
                      THEN [st EXCEPT !.done = TRUE,
                                      !.emitted = get_env_from_tracking(tracking, parts[2])]
                      ELSE [st EXCEPT !.atv =
                               write_lines(without_prefix(splitlines(st.atv.text),
                                                          directory \o <<":">>))]
                 ELSE st
         IN  auto_activate_scan(lines, i + 1, next, directory, current_venv_name,
                                tracking, scripts)

\* VenvManager.auto_activate_for_directory
auto_activate_for_directory(atv, directory, current_venv_name, tracking, scripts) ==
    LET st0 == [atv |-> atv, done |-> FALSE, emitted |-> [found |-> FALSE, value |-> <<>>]]
    IN  IF ~atv.exists THEN st0
        ELSE auto_activate_scan(splitlines(atv.text), 1, st0, directory,
                                current_venv_name, tracking, scripts)

\* the loop of get_auto_activate_env: the first line at or after i that maps
\* directory to an environment that is tracked and present, 0 when none
RECURSIVE first_mapping(_, _, _, _, _)
first_mapping(lines, i, directory, tracking, scripts) ==
    IF i > Len(lines) THEN 0
    ELSE LET parts == split1(lines[i], ":")
         IN  IF /\ Len(parts) = 2
                /\ parts[1] = directory
                /\ tracked_and_present(tracking, scripts, parts[2])
             THEN i
             ELSE first_mapping(lines, i + 1, directory, tracking, scripts)

\* get_auto_activate_env that unpacks every line it reads: it ends with
\* ValueError, in place of a value, when a line it reads holds no ":"
get_auto_activate_env_unpacking(atv, directory, tracking, scripts) ==
    IF ~atv.exists THEN [found |-> FALSE, value |-> <<>>]
    ELSE LET lines == splitlines(atv.text)
             k == first_mapping(lines, 1, directory, tracking, scripts)
             read == IF k = 0 THEN 1..Len(lines) ELSE 1..k
         IN  IF \E i \in read : Len(split1(lines[i], ":")) # 2
             THEN [found |-> FALSE, value |-> <<"ValueError">>]
             ELSE IF k = 0 THEN [found |-> FALSE, value |-> <<>>]
             ELSE [found |-> TRUE, value |-> split1(lines[k], ":")[2]]

\* VenvManager.get_auto_activate_env: found is FALSE for None
get_auto_activate_env(atv, directory, tracking, scripts) ==
    IF ~atv.exists THEN [found |-> FALSE, value |-> <<>>]
    ELSE LET k == first_mapping(splitlines(atv.text), 1, directory, tracking, scripts)
         IN  IF k = 0 THEN [found |-> FALSE, value |-> <<>>]
             ELSE [found |-> TRUE, value |-> split1(splitlines(atv.text)[k], ":")[2]]

(***************************************************************************)
(* Paths and the file system.                                              *)
(*                                                                         *)
(* A path is its normalised text: no "." or ".." component, no doubled or  *)
(* trailing "/", no symbolic link.  The files of the model are the         *)
(* activate scripts; a directory is there when a script lies under it.     *)
(***************************************************************************)
root_dir == <<"/">>

bin_activate == <<"b","i","n","/","a","c","t","i","v","a","t","e">>

\* Path(path).parent
parent(path) ==
    LET at == {i \in 1..Len(path) : path[i] = "/"}
        k == CHOOSE i \in at : \A j \in at : j <= i
    IN  IF at = {} THEN <<".">>
        ELSE IF k = 1 THEN root_dir
        ELSE SubSeq(path, 1, k - 1)

\* base / path: an absolute path replaces base
joinpath(base, path) ==
    IF startswith(path, root_dir) THEN path
    ELSE IF base = root_dir THEN base \o path
    ELSE base \o <<"/">> \o path

\* whether path lies below the directory dir
under(path, dir) ==
    IF dir = root_dir THEN startswith(path, root_dir) /\ path # root_dir
    ELSE startswith(path, dir \o <<"/">>)

\* Path(path).is_dir(): "/" and the home directory are always there
is_dir(scripts, path) ==
    \/ path = root_dir
    \/ path = home
    \/ \E s \in scripts : under(s, path)

\* Path(path).is_file()
is_file(scripts, path) == path \in scripts

\* shutil.rmtree(venv_path): the scripts left on disk
rmtree(scripts, venv_path) == {s \in scripts : ~under(s, venv_path)}

(***************************************************************************)
(* delete_venv.                                                            *)
(***************************************************************************)
\* the active-environment test that never finds the environment active
is_active_venv_never(current_venv, venv_path) == FALSE

\* current_venv and Path(current_venv) == venv_path
is_active_venv(current_venv, venv_path) ==
    current_venv # <<>> /\ current_venv = venv_path

\* the unsafe-path test that knows "/" only
is_unsafe_path_root_only(venv_path) == venv_path = root_dir

\* venv_path == Path("/") or venv_path == Path.home()
is_unsafe_path(venv_path) == venv_path = root_dir \/ venv_path = home

\* VenvManager.delete_venv(env_name, auto_yes) with VIRTUAL_ENV = current_venv
\* (<<>> when unset), the answer to the confirmation prompt (response) and
\* whether shutil.rmtree succeeds (rmtree_ok): the result, the tracking store
\* and the scripts it leaves
delete_venv(tracking, scripts, env_name, auto_yes, current_venv, response, rmtree_ok) ==
    LET activate_path == get_env_from_tracking(tracking, env_name)
        venv_path == parent(parent(activate_path.value))
        same == [result |-> "none", tracking |-> tracking, scripts |-> scripts]
    IN  IF env_name = <<>>
        THEN [same EXCEPT !.result = "usage",
                          !.tracking = list_venvs(tracking, scripts).file]
        ELSE IF ~activate_path.found \/ activate_path.value = <<>>
        THEN [same EXCEPT !.result = "not_found",
                          !.tracking = list_venvs(tracking, scripts).file]
        ELSE IF is_active_venv(current_venv, venv_path)
        THEN [same EXCEPT !.result = "active"]
        ELSE IF is_unsafe_path(venv_path)
        THEN [same EXCEPT !.result = "unsafe"]
        ELSE IF ~is_dir(scripts, venv_path) \/ activate_path.value \notin scripts
        THEN [same EXCEPT !.result = "invalid"]
        ELSE IF ~auto_yes /\ ~response
        THEN [same EXCEPT !.result = "cancelled"]
        ELSE IF ~rmtree_ok
        THEN [same EXCEPT !.result = "failed"]
        ELSE [result |-> "deleted",
              tracking |-> remove_from_global_tracking(tracking, env_name),
              scripts |-> rmtree(scripts, venv_path)]

(***************************************************************************)
(* activate_venv and its best-effort steps.                                *)
(***************************************************************************)
\* characters \w matches, among those of the model
WordChars ==
    {"a","b","c","d","e","f","g","h","i","j","k","l","m","n","o","p","q","r","s",
     "t","u","v","w","x","y","z","A","B","C","D","E","F","G","H","I","J","K","L",
     "M","N","O","P","Q","R","S","T","U","V","W","X","Y","Z","0","1","2","3","4",
     "5","6","7","8","9","_"}

pat_ve_activate == <<"v","e"," ","a","c","t","i","v","a","t","e"," ">>

pat_source == <<"s","o","u","r","c","e"," ">>

auto_activate_comment == <<"\n","#"," ","A","u","t","o","-","a","c","t","i","v","a","t","e"," ","v","i","r","t","u","a","l"," ","e","n","v","i","r","o","n","m","e","n","t",":"," ">>

\* re.compile(r'^ve activate \w+').match(s)
ve_activate_pattern(s) ==
    /\ startswith(s, pat_ve_activate)
    /\ Len(s) > Len(pat_ve_activate)
    /\ s[Len(pat_ve_activate) + 1] \in WordChars

\* re.compile(r'^source .*/bin/activate').match(s)
source_activate_pattern(s) ==
    /\ startswith(s, pat_source)
    /\ contains(SubSeq(s, Len(pat_source) + 1, Len(s)), <<"/">> \o bin_activate)

\* VenvManager._get_auto_activate_command(env_name)
get_auto_activate_command(tracking, scripts, env_name) ==
    IF tracked_and_present(tracking, scripts, env_name)
    THEN pat_source \o get_env_from_tracking(tracking, env_name).value
    ELSE pat_source \o joinpath(joinpath(venvs_dir, env_name), bin_activate)

\* VenvManager._update_shell_auto_activation(env_name): the config file it
\* leaves and the value it returns; readable is FALSE when read_text raises
update_shell_auto_activation(file, readable, tracking, scripts, env_name) ==
    IF ~file.exists THEN [config |-> file, returned |-> FALSE]
    ELSE IF ~readable THEN [config |-> file, returned |-> FALSE]
    ELSE LET lines == splitlines(file.text)
             keep(line) == ~(\/ ve_activate_pattern(strip(line))
                             \/ source_activate_pattern(strip(line)))
             updated_lines == SelectSeq(lines, keep)
             new_command == get_auto_activate_command(tracking, scripts, env_name)
         IN  [config |-> write_lines(Append(Append(updated_lines,
                                                   auto_activate_comment \o env_name),
                                            new_command)),
              returned |-> TRUE]

\* VenvManager._update_vscode_settings(python_path): "raised" when the call
\* ends with an exception, else the value returned.  ide tells whether json5
\* can be imported (json5), .vscode can be created (mkdir), the settings
\* loaded take a key (mapping: not so for a settings.json that holds a list)
\* and settings.json can be written (dump)
update_vscode_settings(ide) ==
    IF ~ide.json5 THEN "False"
    ELSE IF ~ide.mkdir THEN "raised"
    ELSE IF ~ide.mapping THEN "raised"
    ELSE IF ~ide.dump THEN "False"
    ELSE "True"

\* the resolution that looks the name up in the tracking store first
resolve_activate_script_tracking_first(name, cwd, tracking, scripts) ==
    LET path_obj == joinpath(cwd, name)
        tracked_activate == get_env_from_tracking(tracking, name)
        fallback_path == joinpath(venvs_dir, name)
        fallback_activate == joinpath(fallback_path, bin_activate)
    IN  IF tracked_and_present(tracking, scripts, name)
        THEN [rule |-> "tracking", venv_path |-> parent(parent(tracked_activate.value)),
              activate_script |-> tracked_activate.value]
        ELSE IF /\ is_dir(scripts, path_obj)
                /\ joinpath(path_obj, bin_activate) \in scripts
        THEN [rule |-> "directory", venv_path |-> path_obj,
              activate_script |-> joinpath(path_obj, bin_activate)]
        ELSE IF is_file(scripts, path_obj)
        THEN [rule |-> "file", venv_path |-> parent(parent(path_obj)),
              activate_script |-> path_obj]
        ELSE IF is_dir(scripts, fallback_path) /\ fallback_activate \in scripts
        THEN [rule |-> "conventional", venv_path |-> fallback_path,
              activate_script |-> fallback_activate]
        ELSE [rule |-> "none", venv_path |-> <<>>, activate_script |-> <<>>]

\* the resolution of name in activate_venv: the rule that matched, the
\* activate script and the environment root
resolve_activate_script(name, cwd, tracking, scripts) ==
    LET path_obj == joinpath(cwd, name)
        tracked_activate == get_env_from_tracking(tracking, name)
        fallback_path == joinpath(venvs_dir, name)
        fallback_activate == joinpath(fallback_path, bin_activate)
    IN  IF /\ is_dir(scripts, path_obj)
           /\ joinpath(path_obj, bin_activate) \in scripts
        THEN [rule |-> "directory", venv_path |-> path_obj,
              activate_script |-> joinpath(path_obj, bin_activate)]
        ELSE IF is_file(scripts, path_obj)
        THEN [rule |-> "file", venv_path |-> parent(parent(path_obj)),
              activate_script |-> path_obj]
        ELSE IF tracked_and_present(tracking, scripts, name)
        THEN [rule |-> "tracking", venv_path |-> parent(parent(tracked_activate.value)),
              activate_script |-> tracked_activate.value]
        ELSE IF is_dir(scripts, fallback_path) /\ fallback_activate \in scripts
        THEN [rule |-> "conventional", venv_path |-> fallback_path,
              activate_script |-> fallback_activate]
        ELSE [rule |-> "none", venv_path |-> <<>>, activate_script |-> <<>>]

\* activate_venv that writes the Last-Activated marker and the directory
\* mappings before it resolves the name
activate_venv_marks_first(st, name, cwd, vscode, auto, ide, readable) ==
    LET r == resolve_activate_script(name, cwd, st.tracking, st.scripts)
        same == [result |-> "none", emitted |-> [found |-> FALSE, value |-> <<>>],
                 settings |-> "skipped", shell |-> "skipped",
                 tracking |-> st.tracking, atv |-> st.atv, assoc |-> st.assoc,
                 last_venv |-> st.last_venv, config |-> st.config]
        marked == [same EXCEPT
                      !.last_venv = [exists |-> TRUE, text |-> name],
                      !.atv = update_directory_mapping(st.atv, cwd, name),
                      !.assoc = update_directory_mapping(st.assoc, cwd, name)]
        settings == IF vscode /\ ide.python THEN update_vscode_settings(ide)
                    ELSE "skipped"
        shell == update_shell_auto_activation(st.config, readable, st.tracking,
                                              st.scripts, name)
    IN  IF name = <<>>
        THEN [same EXCEPT !.result = "usage",
                          !.tracking = list_venvs(st.tracking, st.scripts).file]
        ELSE IF r.rule = "none"
        THEN [marked EXCEPT !.result = "not_found",
                            !.tracking = list_venvs(st.tracking, st.scripts).file]
        ELSE IF r.activate_script = <<>> \/ r.activate_script \notin st.scripts
        THEN [marked EXCEPT !.result = "no_script"]
        ELSE IF settings = "raised"
        THEN [marked EXCEPT !.result = "raised", !.settings = settings]
        ELSE [marked EXCEPT !.result = "activated",
                            !.settings = settings,
                            !.shell = IF ~auto THEN "skipped"
                                      ELSE IF shell.returned THEN "True" ELSE "False",
                            !.config = IF auto THEN shell.config ELSE st.config,
                            !.emitted = [found |-> TRUE,
                                         value |-> pat_source \o r.activate_script]]

\* VenvManager.activate_venv(name, vscode, auto) run in the directory cwd on
\* the files st (tracking, scripts, atv, assoc, last_venv, config): its
\* result, the "source" line it prints and the files it leaves.  The result
\* is "raised" when the call ends with the exception of
\* _update_vscode_settings
activate_venv(st, name, cwd, vscode, auto, ide, readable) ==
    LET r == resolve_activate_script(name, cwd, st.tracking, st.scripts)
        same == [result |-> "none", emitted |-> [found |-> FALSE, value |-> <<>>],
                 settings |-> "skipped", shell |-> "skipped",
                 tracking |-> st.tracking, atv |-> st.atv, assoc |-> st.assoc,
                 last_venv |-> st.last_venv, config |-> st.config]
        marked == [same EXCEPT
                      !.last_venv = [exists |-> TRUE, text |-> name],
                      !.atv = update_directory_mapping(st.atv, cwd, name),
                      !.assoc = update_directory_mapping(st.assoc, cwd, name)]
        settings == IF vscode /\ ide.python THEN update_vscode_settings(ide)
                    ELSE "skipped"
        shell == update_shell_auto_activation(st.config, readable, st.tracking,
                                              st.scripts, name)
    IN  IF name = <<>>
        THEN [same EXCEPT !.result = "usage",
                          !.tracking = list_venvs(st.tracking, st.scripts).file]
        ELSE IF r.rule = "none"
        THEN [same EXCEPT !.result = "not_found",
                          !.tracking = list_venvs(st.tracking, st.scripts).file]
        ELSE IF r.activate_script = <<>> \/ r.activate_script \notin st.scripts
        THEN [same EXCEPT !.result = "no_script"]
        ELSE IF settings = "raised"
        THEN [marked EXCEPT !.result = "raised", !.settings = settings]
        ELSE [marked EXCEPT !.result = "activated",
                            !.settings = settings,
                            !.shell = IF ~auto THEN "skipped"
                                      ELSE IF shell.returned THEN "True" ELSE "False",
                            !.config = IF auto THEN shell.config ELSE st.config,
                            !.emitted = [found |-> TRUE,
                                         value |-> pat_source \o r.activate_script]]

(***************************************************************************)
(* The shell config file and the operations on it.                         *)
(*                                                                         *)
(* config is the file the operation resolves as the shell's config file:   *)
(* exists tells whether it is there, text is its content.  The shell is an *)
(* input of every install; it selects the integration script sourced.      *)
(* last describes the operation that ran last (op, shell, response,        *)
(* result), the file before it (before) and, when the operation before it  *)
(* was an install that wrote its block, that install (prev); for a         *)
(* clean_zshrc that follows such an install, orig is the file before the   *)
(* install.                                                                *)
(***************************************************************************)
NoOp == [op |-> "none", shell |-> "none", result |-> "none", from_empty |-> FALSE]

\* lines an initial config file is made of
PaletteLines ==
    { <<>>,
      <<"x","=","1">>,
      ve_marker,
      source_line("zsh"),
      <<"."," ">> \o target_script("zsh"),
      <<"s","a","v","e","(",")"," ","{">>,
      <<"#"," ">> \o phrase_manager }

RECURSIVE LineSeqs(_)
LineSeqs(n) ==
    IF n = 0 THEN {<<>>}
    ELSE LET shorter == LineSeqs(n - 1)
         IN  shorter \cup {Append(ls, l) : ls \in {x \in shorter : Len(x) = n - 1}, l \in PaletteLines}

\* contents of an initial config file
InitContents == {join(ls) : ls \in LineSeqs(MaxLines)}

\* the install that ran last, when it wrote its block
carry_prev ==
    IF last.result = "installed"
    THEN [op |-> last.op, shell |-> last.shell, result |-> last.result,
          from_empty |-> last.before.text = <<>>]
    ELSE NoOp

\* what an operation records in last
record(op, shell, response, result) ==
    [op |-> op, shell |-> shell, response |-> response, result |-> result,
     before |-> config, prev |-> carry_prev,
     orig |-> IF op = "clean_zshrc" /\ last.result = "installed"
              THEN last.before ELSE NoFile]

NoConfigOp ==
    [op |-> "none", shell |-> "none", response |-> FALSE, result |-> "none",
     before |-> NoFile, prev |-> NoOp, orig |-> NoFile]

NoStoreOp ==
    [op |-> "none", name |-> <<>>, value |-> <<>>, dir |-> <<>>, before |-> NoFile,
     reported |-> FALSE, removed_count |-> 0,
     emitted |-> [found |-> FALSE, value |-> <<>>]]

NoOrchOp ==
    [op |-> "none", name |-> <<>>, cwd |-> <<>>, current_venv |-> <<>>,
     result |-> "none", emitted |-> [found |-> FALSE, value |-> <<>>],
     settings |-> "skipped", shell |-> "skipped",
     confirmed |-> FALSE, rmtree_ok |-> FALSE]

\* the runs of _update_global_tracking that race for the tracking store
Procs == {1, 2}

\* no run is under way
NoProcs ==
    [p \in Procs |-> [pc |-> "idle", name |-> <<>>, value |-> <<>>, lines |-> <<>>,
                      seen |-> NoFile]]

\* the stores as VenvManager.__init__ finds them on a first run
StoresAbsent ==
    /\ global_env_file = NoFile
    /\ atv_history_file = NoFile
    /\ assoc_file = NoFile
    /\ existing = {}
    /\ slast = NoStoreOp
    /\ last_venv_file = NoFile
    /\ olast = NoOrchOp
    /\ procs = NoProcs

ConfigInit ==
    /\ config \in {NoFile} \cup {[exists |-> TRUE, text |-> c] : c \in InitContents}
    /\ last = NoConfigOp
    /\ StoresAbsent

\* content read from the config file, created empty when absent
read_or_create == IF config.exists THEN config.text ELSE <<>>

\* install_shell_integration.py: install_shell_integration()
InstallStandalone ==
    \E shell \in Shells, script_exists \in BOOLEAN, response \in BOOLEAN :
        /\ IF ~script_exists
           THEN /\ config' = config
                /\ last' = record("install_shell_integration", shell, FALSE, "failed")
           ELSE LET r == install_shell_integration(read_or_create, shell, response)
                    asked == \/ has_source_line(read_or_create, shell)
                             \/ has_marker(read_or_create)
                IN  /\ config' = [exists |-> TRUE, text |-> r.content]
                    /\ last' = record("install_shell_integration", shell,
                                      asked /\ response, r.result)
        /\ UNCHANGED <<storevars, orchvars, racevars>>

\* vex.py: VenvManager.install_shell_integration()
InstallVenvManager ==
    \E shell \in Shells, script_exists \in BOOLEAN :
        /\ IF ~script_exists
           THEN /\ config' = config
                /\ last' = record("VenvManager.install_shell_integration", shell,
                                  FALSE, "failed")
           ELSE LET r == VenvManager_install_shell_integration(read_or_create, shell)
                IN  /\ config' = [exists |-> TRUE, text |-> r.content]
                    /\ last' = record("VenvManager.install_shell_integration", shell,
                                      FALSE, r.result)
        /\ UNCHANGED <<storevars, orchvars, racevars>>

\* clean_zshrc.py: clean_zshrc()
CleanZshrc ==
    /\ IF ~config.exists
       THEN /\ config' = config
            /\ last' = record("clean_zshrc", "zsh", FALSE, "nofile")
       ELSE /\ config' = [exists |-> TRUE, text |-> clean_zshrc_content(config.text)]
            /\ last' = record("clean_zshrc", "zsh", FALSE, "cleaned")
    /\ UNCHANGED <<storevars, orchvars, racevars>>

ConfigNext == InstallStandalone \/ InstallVenvManager \/ CleanZshrc

SpecConfig == ConfigInit /\ [][ConfigNext]_vars

(***************************************************************************)
(* The tracking store (venv_all_env) and the operations on it.             *)
(*                                                                         *)
(* slast describes the store operation that ran last: its arguments, the   *)
(* file it read (before), what a listing reported and what an              *)
(* auto-activation emitted.                                                *)
(***************************************************************************)
NameChars == <<"a", "b", "c", "d">>

\* environment names, each matching [a-zA-Z0-9_-]+
Names == {<<NameChars[i]>> : i \in 1..MaxNames}

\* an activate script outside ~/.vex/venvs whose path holds a space
other_script == <<"/","w"," ","s","/","b","i","n","/","a","c","t","i","v","a","t","e">>

\* the activate scripts of the model
ScriptPaths == {activate_script_of(n) : n \in Names} \cup {other_script}

TrackInit ==
    /\ config = NoFile
    /\ last = NoConfigOp
    /\ StoresAbsent

\* VenvManager._update_global_tracking(env_name, activate_script)
UpdateGlobalTracking ==
    \E env_name \in Names, activate_script \in ScriptPaths :
        /\ activate_script \in {activate_script_of(env_name), other_script}
        /\ global_env_file' = update_global_tracking(global_env_file, env_name,
                                                     activate_script)
        /\ slast' = [NoStoreOp EXCEPT !.op = "update_global_tracking",
                                      !.name = env_name, !.value = activate_script,
                                      !.before = global_env_file]
        /\ UNCHANGED <<atv_history_file, assoc_file, existing, cfgvars, orchvars, racevars>>

\* VenvManager._remove_from_global_tracking(env_name)
RemoveFromGlobalTracking ==
    \E env_name \in Names :
        /\ global_env_file' = remove_from_global_tracking(global_env_file, env_name)
        /\ slast' = [NoStoreOp EXCEPT !.op = "remove_from_global_tracking",
                                      !.name = env_name, !.before = global_env_file]
        /\ UNCHANGED <<atv_history_file, assoc_file, existing, cfgvars, orchvars, racevars>>

\* VenvManager.list_venvs()
ListVenvs ==
    LET r == list_venvs(global_env_file, existing)
    IN  /\ global_env_file' = r.file
        /\ slast' = [NoStoreOp EXCEPT !.op = "list_venvs", !.before = global_env_file,
                                      !.reported = r.reported,
                                      !.removed_count = r.removed_count]
        /\ UNCHANGED <<atv_history_file, assoc_file, existing, cfgvars, orchvars, racevars>>

\* VenvManager.list_venvs_conda_style()
ListVenvsCondaStyle ==
    LET r == list_venvs_conda_style(global_env_file, existing)
    IN  /\ global_env_file' = r.file
        /\ slast' = [NoStoreOp EXCEPT !.op = "list_venvs_conda_style",
                                      !.before = global_env_file,
                                      !.reported = r.reported,
                                      !.removed_count = r.removed_count]
        /\ UNCHANGED <<atv_history_file, assoc_file, existing, cfgvars, orchvars, racevars>>

\* the environment: an activate script is created (venv provisioning)
ScriptCreated ==
    \E path \in ScriptPaths \ existing :
        /\ existing' = existing \cup {path}
        /\ slast' = NoStoreOp
        /\ UNCHANGED <<global_env_file, atv_history_file, assoc_file, cfgvars, orchvars, racevars>>

\* the environment: an activate script is deleted from disk
ScriptDeleted ==
    \E path \in existing :
        /\ existing' = existing \ {path}
        /\ slast' = NoStoreOp
        /\ UNCHANGED <<global_env_file, atv_history_file, assoc_file, cfgvars, orchvars, racevars>>

TrackNext ==
    \/ UpdateGlobalTracking
    \/ RemoveFromGlobalTracking
    \/ ListVenvs
    \/ ListVenvsCondaStyle
    \/ ScriptCreated
    \/ ScriptDeleted

SpecTrack == TrackInit /\ [][TrackNext]_vars

(***************************************************************************)
(* The directory-association stores (atv_history, venv_pdirs) and the      *)
(* operations on them.  The tracking store and the scripts on disk are     *)
(* inputs here: they are drawn at the start and stay as they are.          *)
(***************************************************************************)
\* working directories; the second one holds the separator
Dirs == { <<"/","x">>, <<"/","x",":","y">> }

\* tracking stores as creating the first environments leaves them
TrackingInputs ==
    LET a == <<NameChars[1]>>
        b == <<NameChars[2]>>
        one == update_global_tracking(NoFile, a, activate_script_of(a))
    IN  {NoFile, one, update_global_tracking(one, b, activate_script_of(b))}

\* values of VIRTUAL_ENV: unset, or the root of an environment
CurrentVenvs == {<<>>} \cup {venvs_dir \o <<"/">> \o n : n \in Names}

DirInit ==
    /\ config = NoFile
    /\ last = NoConfigOp
    /\ global_env_file \in TrackingInputs
    /\ existing \in SUBSET {activate_script_of(<<NameChars[1]>>),
                            activate_script_of(<<NameChars[2]>>)}
    /\ atv_history_file = NoFile
    /\ assoc_file = NoFile
    /\ slast = NoStoreOp
    /\ last_venv_file \in {NoFile, [exists |-> TRUE, text |-> <<NameChars[1]>>]}
    /\ olast = NoOrchOp
    /\ procs = NoProcs

\* VenvManager._update_directory_mapping(env_name) in the directory current_dir
UpdateDirectoryMapping ==
    \E current_dir \in Dirs, env_name \in Names :
        /\ atv_history_file' = update_directory_mapping(atv_history_file, current_dir,
                                                        env_name)
        /\ assoc_file' = update_directory_mapping(assoc_file, current_dir, env_name)
        /\ slast' = [NoStoreOp EXCEPT !.op = "update_directory_mapping",
                                      !.name = env_name, !.dir = current_dir,
                                      !.before = atv_history_file]
        /\ UNCHANGED <<global_env_file, existing, cfgvars, orchvars, racevars>>

\* VenvManager.clear_history()
ClearHistory ==
    /\ atv_history_file' = IF atv_history_file.exists THEN NoFile ELSE atv_history_file
    /\ slast' = [NoStoreOp EXCEPT !.op = "clear_history", !.before = atv_history_file]
    /\ UNCHANGED <<assoc_file, global_env_file, existing, cfgvars, orchvars, racevars>>

\* VenvManager.auto_activate_for_directory(directory)
AutoActivateForDirectory ==
    \E directory \in Dirs, current_venv \in CurrentVenvs :
        LET current_venv_name == IF current_venv # <<>> THEN path_name(current_venv)
                                 ELSE <<>>
            r == auto_activate_for_directory(atv_history_file, directory,
                                             current_venv_name, global_env_file, existing)
        IN  /\ atv_history_file' = r.atv
            /\ slast' = [NoStoreOp EXCEPT !.op = "auto_activate_for_directory",
                                          !.name = current_venv_name,
                                          !.dir = directory,
                                          !.before = atv_history_file,
                                          !.emitted = r.emitted]
            /\ UNCHANGED <<assoc_file, global_env_file, existing, cfgvars, orchvars, racevars>>

DirNext == UpdateDirectoryMapping \/ ClearHistory \/ AutoActivateForDirectory

SpecDir == DirInit /\ [][DirNext]_vars

(***************************************************************************)
(* delete_venv on a tracking store and a disk drawn at the start.          *)
(*                                                                         *)
(* olast describes the activate_venv or delete_venv call that ran last:    *)
(* its arguments, the directory it ran in, VIRTUAL_ENV, its result, the    *)
(* "source" line it printed and what its best-effort steps returned; for a *)
(* delete_venv, whether the deletion was confirmed (by auto_yes or at the  *)
(* prompt) and whether shutil.rmtree would succeed.                        *)
(***************************************************************************)
\* the activate script of an environment whose root is the home directory
home_script == joinpath(home, bin_activate)

\* the activate script of an environment whose root is "/"
root_script == joinpath(root_dir, bin_activate)

\* tracking stores: the first name tracked at its conventional path or at
\* the home directory, the second one at its conventional path or at "/"
DeleteTrackingInputs ==
    LET a == <<NameChars[1]>>
        b == <<NameChars[2]>>
        first == {update_global_tracking(NoFile, a, v) :
                      v \in {activate_script_of(a), home_script}}
        both == {update_global_tracking(f, b, v) :
                     f \in first, v \in {activate_script_of(b), root_script}}
    IN  {NoFile} \cup first \cup both

\* values of VIRTUAL_ENV: unset, the root of the first environment, or home
DeleteCurrentVenvs == {<<>>, venvs_dir \o <<"/">> \o <<NameChars[1]>>, home}

DeleteInit ==
    /\ config = NoFile
    /\ last = NoConfigOp
    /\ global_env_file \in DeleteTrackingInputs
    /\ existing \in SUBSET {activate_script_of(<<NameChars[1]>>),
                            activate_script_of(<<NameChars[2]>>),
                            home_script, root_script}
    /\ atv_history_file = NoFile
    /\ assoc_file = NoFile
    /\ slast = NoStoreOp
    /\ last_venv_file = NoFile
    /\ olast = NoOrchOp
    /\ procs = NoProcs

\* VenvManager.delete_venv(env_name, auto_yes); the prompt is asked, and
\* response given, only without auto_yes
DeleteVenv ==
    \E env_name \in Names \cup {<<>>}, auto_yes \in BOOLEAN, response \in BOOLEAN,
       current_venv \in DeleteCurrentVenvs, rmtree_ok \in BOOLEAN :
        LET r == delete_venv(global_env_file, existing, env_name, auto_yes,
                             current_venv, response, rmtree_ok)
        IN  /\ auto_yes => ~response
            /\ global_env_file' = r.tracking
            /\ existing' = r.scripts
            /\ olast' = [NoOrchOp EXCEPT !.op = "delete_venv", !.name = env_name,
                                         !.current_venv = current_venv,
                                         !.confirmed = auto_yes \/ response,
                                         !.rmtree_ok = rmtree_ok,
                                         !.result = r.result]
            /\ UNCHANGED <<atv_history_file, assoc_file, slast, last_venv_file, cfgvars, racevars>>

DeleteNext == DeleteVenv

SpecDelete == DeleteInit /\ [][DeleteNext]_vars


(***************************************************************************)
(* activate_venv in one working directory, on a tracking store, a disk and *)
(* a shell config file drawn at the start.                                 *)
(***************************************************************************)
\* largest number of lines of a config file activate_venv --auto is run on
MaxAutoLines == 3

\* the working directory of the activations
work_dir == <<"/","x">>

\* an environment in the working directory whose folder has the first name
local_dir == joinpath(work_dir, <<NameChars[1]>>)

local_script == joinpath(local_dir, bin_activate)

\* the names activate_venv is called with: none, environment names (the
\* first one also names a directory of the working directory) and the path
\* of a script
ActivateNames == {<<>>} \cup Names \cup {other_script}

\* tracking stores: the first name at its conventional path or elsewhere
ActivateTrackingInputs ==
    LET a == <<NameChars[1]>>
    IN  {NoFile} \cup {update_global_tracking(NoFile, a, v) :
                           v \in {activate_script_of(a), other_script}}

\* shell config files: none, or one that holds auto-activation commands
ActivateConfigs ==
    {NoFile,
     write_lines(<< <<"x","=","1">>,
                    <<"s","o","u","r","c","e"," ","/","v","/","b","i","n","/","a","c","t","i","v","a","t","e">>,
                    <<"v","e"," ","a","c","t","i","v","a","t","e"," ","a">> >>)}

\* what the IDE-settings update meets: all well, no python in the
\* environment, no json5, .vscode not creatable, settings.json holding a
\* list, settings.json not writable
IdeInputs ==
    LET ok == [python |-> TRUE, json5 |-> TRUE, mkdir |-> TRUE, mapping |-> TRUE,
               dump |-> TRUE]
    IN  {ok, [ok EXCEPT !.python = FALSE], [ok EXCEPT !.json5 = FALSE],
         [ok EXCEPT !.mkdir = FALSE], [ok EXCEPT !.mapping = FALSE],
         [ok EXCEPT !.dump = FALSE]}

ActivateInit ==
    /\ config \in ActivateConfigs
    /\ last = NoConfigOp
    /\ global_env_file \in ActivateTrackingInputs
    /\ existing \in SUBSET {activate_script_of(<<NameChars[1]>>), other_script,
                            local_script}
    /\ atv_history_file = NoFile
    /\ assoc_file = NoFile
    /\ slast = NoStoreOp
    /\ last_venv_file = NoFile
    /\ olast = NoOrchOp
    /\ procs = NoProcs

\* VenvManager.activate_venv(name, vscode, auto); what the IDE-settings
\* update meets is an input with vscode only, whether the config file can
\* be read with auto and a config file only
ActivateVenv ==
    \E name \in ActivateNames, vscode \in BOOLEAN, auto \in BOOLEAN,
       ide \in IdeInputs, readable \in BOOLEAN :
        /\ vscode \/ ide = [python |-> TRUE, json5 |-> TRUE, mkdir |-> TRUE,
                            mapping |-> TRUE, dump |-> TRUE]
        /\ (auto /\ config.exists) \/ readable
        /\ auto /\ config.exists => Len(splitlines(config.text)) <= MaxAutoLines
        /\ LET st == [tracking |-> global_env_file, scripts |-> existing,
                      atv |-> atv_history_file, assoc |-> assoc_file,
                      last_venv |-> last_venv_file, config |-> config]
               r == activate_venv(st, name, work_dir, vscode, auto, ide, readable)
           IN  /\ global_env_file' = r.tracking
               /\ atv_history_file' = r.atv
               /\ assoc_file' = r.assoc
               /\ last_venv_file' = r.last_venv
               /\ config' = r.config
               /\ olast' = [NoOrchOp EXCEPT !.op = "activate_venv", !.name = name,
                                            !.cwd = work_dir, !.result = r.result,
                                            !.emitted = r.emitted,
                                            !.settings = r.settings,
                                            !.shell = r.shell]
        /\ UNCHANGED <<existing, slast, last, racevars>>

ActivateNext == ActivateVenv

SpecActivate == ActivateInit /\ [][ActivateNext]_vars

(***************************************************************************)
(* The scan of clean_zshrc and the two lookups on hand-edited files: a     *)
(* config file of any lines, stores with lines that are blank, lack the    *)
(* separator or hold it more than once.                                    *)
(***************************************************************************)
\* tracking stores: absent, empty, and with malformed lines
ScanTrackingInputs ==
    LET a == <<NameChars[1]>>
        no_separator == a
        extra_field == <<" ">> \o a \o <<" ">> \o other_script
    IN  {NoFile,
         [exists |-> TRUE, text |-> <<>>],
         write_lines(<<no_separator>>),
         write_lines(<< <<>>, extra_field >>),
         write_lines(<<no_separator, extra_field>>)}

\* directory stores: absent, empty, and with malformed lines
ScanHistoryInputs ==
    LET no_separator == <<"/","x">>
        extra_field == <<"/","x",":","a",":","b">>
        mapping == <<"/","x",":","a">>
    IN  {NoFile,
         [exists |-> TRUE, text |-> <<>>],
         write_lines(<<no_separator>>),
         write_lines(<<extra_field, mapping>>),
         write_lines(<< <<":">>, <<>>, no_separator, mapping >>)}

ScanInit ==
    /\ config \in {NoFile} \cup {[exists |-> TRUE, text |-> c] : c \in InitContents}
    /\ last = NoConfigOp
    /\ global_env_file \in ScanTrackingInputs
    /\ atv_history_file \in ScanHistoryInputs
    /\ assoc_file = NoFile
    /\ existing = {other_script}
    /\ slast = NoStoreOp
    /\ last_venv_file = NoFile
    /\ olast = NoOrchOp
    /\ procs = NoProcs

\* VenvManager._get_env_from_tracking(env_name)
GetEnvFromTracking ==
    \E env_name \in Names :
        /\ slast' = [NoStoreOp EXCEPT
                        !.op = "get_env_from_tracking", !.name = env_name,
                        !.before = global_env_file,
                        !.emitted = get_env_from_tracking(global_env_file, env_name)]
        /\ UNCHANGED <<global_env_file, atv_history_file, assoc_file, existing,
                       cfgvars, orchvars, racevars>>

\* VenvManager.get_auto_activate_env(directory)
GetAutoActivateEnv ==
    \E directory \in Dirs :
        /\ slast' = [NoStoreOp EXCEPT
                        !.op = "get_auto_activate_env", !.dir = directory,
                        !.before = atv_history_file,
                        !.emitted = get_auto_activate_env(atv_history_file, directory,
                                                          global_env_file, existing)]
        /\ UNCHANGED <<global_env_file, atv_history_file, assoc_file, existing,
                       cfgvars, orchvars, racevars>>

ScanNext == CleanZshrc \/ GetEnvFromTracking \/ GetAutoActivateEnv

SpecScan == ScanInit /\ [][ScanNext]_vars

(***************************************************************************)
(* Two runs of _update_global_tracking on one tracking store.  The file is *)
(* not locked: a run reads the file and filters its lines in one step and  *)
(* writes the file in a later step, and the steps of the two runs          *)
(* interleave.  procs[p] holds the position of run p, its arguments, the   *)
(* lines it holds and the file it read (seen).                             *)
(***************************************************************************)
\* the lines a run holds after the read: those of the other names
tracking_lines_read(file, env_name) ==
    IF file.exists
    THEN without_prefix(splitlines(file.text), env_name \o <<" ">>)
    ELSE <<>>

\* the write of a run that opens the file for append and adds its entry
tracking_written_append(lines, env_name, activate_script) ==
    [exists |-> TRUE,
     text |-> global_env_file.text \o env_name \o <<" ">> \o activate_script
                  \o <<"\n">>]

\* the file a run writes: the lines it holds and the new entry
tracking_written(lines, env_name, activate_script) ==
    write_lines(Append(lines, env_name \o <<" ">> \o activate_script))

\* tracking stores the runs start from: absent, with an entry, with two
RaceTrackingInputs == TrackingInputs

\* a run at its start, with its arguments
run_of(env_name, activate_script) ==
    [pc |-> "read", name |-> env_name, value |-> activate_script, lines |-> <<>>,
     seen |-> NoFile]

\* the two runs are for different names
RaceRuns ==
    {[p \in Procs |-> IF p = 1 THEN run_of(n1, v1) ELSE run_of(n2, v2)] :
        n1 \in Names, n2 \in Names, v1 \in ScriptPaths, v2 \in ScriptPaths}

RaceInit ==
    /\ config = NoFile
    /\ last = NoConfigOp
    /\ global_env_file \in RaceTrackingInputs
    /\ atv_history_file = NoFile
    /\ assoc_file = NoFile
    /\ existing = {}
    /\ slast = NoStoreOp
    /\ last_venv_file = NoFile
    /\ olast = NoOrchOp
    /\ procs \in RaceRuns
    /\ procs[1].name # procs[2].name
    /\ \A p \in Procs :
          procs[p].value \in {activate_script_of(procs[p].name), other_script}

\* _update_global_tracking of run p: the read of the file and the filter
UpsertRead(p) ==
    /\ procs[p].pc = "read"
    /\ procs' = [procs EXCEPT
                    ![p].pc = "write",
                    ![p].lines = tracking_lines_read(global_env_file, procs[p].name),
                    ![p].seen = global_env_file]
    /\ UNCHANGED <<storevars, cfgvars, orchvars>>

\* _update_global_tracking of run p: the append and the write of the file
UpsertWrite(p) ==
    /\ procs[p].pc = "write"
    /\ global_env_file' = tracking_written(procs[p].lines, procs[p].name,
                                           procs[p].value)
    /\ procs' = [procs EXCEPT ![p].pc = "done"]
    /\ slast' = [NoStoreOp EXCEPT !.op = "update_global_tracking",
                                  !.name = procs[p].name, !.value = procs[p].value,
                                  !.before = procs[p].seen]
    /\ UNCHANGED <<atv_history_file, assoc_file, existing, cfgvars, orchvars>>

RaceNext == \E p \in Procs : UpsertRead(p) \/ UpsertWrite(p)

SpecRace == RaceInit /\ [][RaceNext]_vars

(***************************************************************************)
(* clean_zshrc on config files with integration regions: function          *)
(* definitions with their braces, marker lines, blank and ordinary lines,  *)
(* in every order.                                                         *)
(***************************************************************************)
\* largest number of lines of a config file given to the line scan
MaxDetectLines == 4

\* a definition of the function ve that opens its body
ve_open == <<"v","e","(",")"," ","{">>

\* a definition of the function ve with its whole body on the line
ve_one_line == <<"v","e","(",")"," ","{","}">>

\* lines a scanned config file is made of
DetectLines ==
    { <<>>,
      <<"x","=","1">>,
      ve_open,
      <<"}">>,
      ve_marker,
      ve_one_line,
      <<"#"," ","c">> }

RECURSIVE DetectSeqs(_)
DetectSeqs(n) ==
    IF n = 0 THEN {<<>>}
    ELSE LET shorter == DetectSeqs(n - 1)
         IN  shorter \cup {Append(ls, l) : ls \in {x \in shorter : Len(x) = n - 1}, l \in DetectLines}

\* contents of a scanned config file
DetectContents == {join(ls) : ls \in DetectSeqs(MaxDetectLines)}

DetectInit ==
    /\ config \in {NoFile} \cup {[exists |-> TRUE, text |-> c] : c \in DetectContents}
    /\ last = NoConfigOp
    /\ StoresAbsent

DetectNext == CleanZshrc

SpecDetect == DetectInit /\ [][DetectNext]_vars

\* the state of the scan of clean_zshrc after its first n iterations
RECURSIVE clean_prefix(_, _)
clean_prefix(lines, n) ==
    IF n = 0 THEN clean_init
    ELSE clean_step(lines, n, clean_prefix(lines, n - 1))

(***************************************************************************)
(* install_shell_integration on config files that hold an integration      *)
(* block among the user's lines.                                           *)
(***************************************************************************)
\* largest number of lines of a config file given to a reinstall
MaxReinstallLines == 4

\* lines such a config file is made of
ReinstallLines == { <<>>, <<"x","=","1">>, ve_marker, source_line("zsh") }

RECURSIVE ReinstallSeqs(_)
ReinstallSeqs(n) ==
    IF n = 0 THEN {<<>>}
    ELSE LET shorter == ReinstallSeqs(n - 1)
         IN  shorter \cup {Append(ls, l) : ls \in {x \in shorter : Len(x) = n - 1}, l \in ReinstallLines}

\* every marker line is followed by its payload, as the installers write
\* the block
blocks_complete(ls) ==
    \A i \in 1..Len(ls) :
        ls[i] = ve_marker => (i < Len(ls) /\ ls[i + 1] = source_line("zsh"))

ReinstallContents ==
    {join(ls) : ls \in {x \in ReinstallSeqs(MaxReinstallLines) : blocks_complete(x)}}

ReinstallInit ==
    /\ config \in {NoFile} \cup {[exists |-> TRUE, text |-> c] : c \in ReinstallContents}
    /\ last = NoConfigOp
    /\ StoresAbsent

ReinstallNext == InstallStandalone

SpecReinstall == ReinstallInit /\ [][ReinstallNext]_vars

(***************************************************************************)
(* Properties of the shell config operations.                              *)
(***************************************************************************)
InstallOps == {"install_shell_integration", "VenvManager.install_shell_integration"}

\* the operation that ran last is an install of the same installer and the
\* same payload as the install before it, which wrote its block
SecondInstall ==
    /\ last.op \in InstallOps
    /\ last.prev.result = "installed"
    /\ last.prev.op = last.op
    /\ last.prev.shell = last.shell

\* C1: an install that runs on the result of a previous install of the same
\* payload leaves the file content as the first install wrote it.
C1_InstallIdempotent == SecondInstall => config = last.before

\* lines of a text that hold the marker
marker_lines(text) ==
    {i \in 1..Len(splitlines(text)) : contains(splitlines(text)[i], ve_marker)}

\* the text holds exactly one marker block and its payload is the source
\* line of shell
one_block_with_payload(text, shell) ==
    /\ Cardinality(marker_lines(text)) = 1
    /\ \A i \in marker_lines(text) :
          /\ i + 1 <= Len(splitlines(text))
          /\ splitlines(text)[i + 1] = source_line(shell)
    /\ \A other \in Shells \ {shell} : ~contains(text, target_script(other))

\* the operation that ran last is an install of payload Y that follows an
\* install of a different payload X on an empty config file
InstallAfterOther ==
    /\ last.op \in InstallOps
    /\ last.prev.result = "installed"
    /\ last.prev.from_empty
    /\ last.prev.shell # last.shell

CleanAfterInstall ==
    /\ last.op = "clean_zshrc"
    /\ last.result = "cleaned"
    /\ last.prev.result = "installed"

\* C2 as stated: clean_zshrc applied to the result of an install on C
\* restores C up to trailing whitespace, for any C.
C2_RoundTrip ==
    CleanAfterInstall => rstrip(config.text) = rstrip(last.orig.text)

\* no line of the text is taken for an integration marker by clean_zshrc and
\* no line names an integration script
no_integration_line(text) ==
    \A i \in 1..Len(splitlines(text)) :
        /\ ~is_marker_line(splitlines(text)[i])
        /\ \A shell \in Shells : ~contains(splitlines(text)[i], source_line(shell))

\* C2 amended: the round trip restores C up to trailing whitespace when no
\* line of C holds the marker text or the descriptive phrase and no line of C
\* sources an integration script.
C2_RoundTripUnrelated ==
    (CleanAfterInstall /\ no_integration_line(last.orig.text))
    => rstrip(config.text) = rstrip(last.orig.text)

C2_Witness ==
    /\ CleanAfterInstall
    /\ no_integration_line(last.orig.text)
    /\ Len(splitlines(last.orig.text)) = 2
    /\ rstrip(last.orig.text) = last.orig.text
    /\ config.text # last.before.text

\* a non-comment line that defines a shell function named ve
defines_ve_function(line) ==
    LET s == strip(line)
    IN  \/ startswith(s, pat_ve_call)
        \/ startswith(s, pat_function_ve_call)
        \/ s = pat_function_ve
        \/ startswith(s, pat_function_ve \o <<" ">>)
        \/ startswith(s, pat_function_ve \o <<"{">>)

\* C4: clean_zshrc keeps all the lines of a file in which no line carries the
\* marker or the descriptive phrase and no non-comment line defines a
\* function for the managed command ve.
C4_NoRegionKeepsAllLines ==
    (/\ last.op = "clean_zshrc"
     /\ last.result = "cleaned"
     /\ \A i \in 1..Len(splitlines(last.before.text)) :
           /\ ~is_marker_line(splitlines(last.before.text)[i])
           /\ ~defines_ve_function(splitlines(last.before.text)[i]))
    => /\ clean_result(last.before.text).removed = {}
       /\ config.text = join(splitlines(last.before.text))

\* C5: a config file that consists of the marker line only yields a region
\* that runs to end-of-file, and clean_zshrc writes an empty file.
C5_MarkerOnlyFile ==
    (/\ last.op = "clean_zshrc"
     /\ last.before.exists
     /\ last.before.text = ve_marker)
    => /\ last.result = "cleaned"
       /\ clean_result(last.before.text).removed = {1}
       /\ clean_result(last.before.text).in_ve_section
       /\ config = [exists |-> TRUE, text |-> <<>>]

C5_Witness ==
    /\ last.op = "clean_zshrc"
    /\ last.before = [exists |-> TRUE, text |-> ve_marker]
    /\ config.text = <<>>

(***************************************************************************)
(* Properties of the tracking store.                                       *)
(***************************************************************************)
\* the lines of a tracking file that are entries (a name and a value)
entry_lines(file) ==
    {i \in 1..Len(splitlines(file.text)) : Len(entry_parts(splitlines(file.text)[i])) = 2}

\* the lines of a tracking file that are entries of env_name
entries_of(file, env_name) ==
    {i \in entry_lines(file) : entry_parts(splitlines(file.text)[i])[1] = env_name}

C7_NamesUnique ==
    /\ \A n \in Names : Cardinality(entries_of(global_env_file, n)) <= 1
    /\ slast.op = "update_global_tracking"
          => Cardinality(entries_of(global_env_file, slast.name)) = 1

\* an upsert of a name the store already held
C7_Witness ==
    /\ slast.op = "update_global_tracking"
    /\ Cardinality(entries_of(slast.before, slast.name)) = 1
    /\ Cardinality(entry_lines(global_env_file)) = MaxNames

\* the entries of a tracking file, in order
RECURSIVE entries_in(_)
entries_in(lines) ==
    IF lines = <<>> THEN <<>>
    ELSE IF Len(entry_parts(Head(lines))) = 2
    THEN <<entry_parts(Head(lines))>> \o entries_in(Tail(lines))
    ELSE entries_in(Tail(lines))

\* of a sequence of entries, those whose activation path exists
RECURSIVE present_in(_, _)
present_in(entries, scripts) ==
    IF entries = <<>> THEN <<>>
    ELSE IF Head(entries)[2] \in scripts
    THEN <<Head(entries)>> \o present_in(Tail(entries), scripts)
    ELSE present_in(Tail(entries), scripts)

ListOps == {"list_venvs", "list_venvs_conda_style"}

\* C10: a listing removes from the tracking store exactly the entries whose
\* activation path does not exist, keeps the others in order, and reports a
\* count equal to the number of dangling entries removed.
C10_ListingPrunesDangling ==
    slast.op \in ListOps =>
        LET entries == entries_in(splitlines(slast.before.text))
            kept == present_in(entries, existing)
        IN  /\ entries_in(splitlines(global_env_file.text)) = kept
            /\ Len(kept) < Len(entries) => slast.reported
            /\ slast.reported => slast.removed_count = Len(entries) - Len(kept)

(***************************************************************************)
(* Properties of the directory-association stores.                         *)
(***************************************************************************)
\* the lines of a history file that map directory
mappings_of(file, directory) ==
    {i \in 1..Len(splitlines(file.text)) :
        /\ Len(split1(splitlines(file.text)[i], ":")) = 2
        /\ split1(splitlines(file.text)[i], ":")[1] = directory}

\* C8: after _update_directory_mapping records d -> b (b tracked, its script
\* present), also where d -> a was recorded before, get_auto_activate_env(d)
\* returns b and the store holds exactly one entry for d.
C8_LastWriteWins ==
    (/\ slast.op = "update_directory_mapping"
     /\ tracked_and_present(global_env_file, existing, slast.name))
    => /\ get_auto_activate_env(atv_history_file, slast.dir, global_env_file, existing)
            = [found |-> TRUE, value |-> slast.name]
       /\ Cardinality(mappings_of(atv_history_file, slast.dir)) = 1

\* the mappings a store holds: its lines that are not blank
mapping_set(file) ==
    {splitlines(file.text)[i] : i \in {j \in 1..Len(splitlines(file.text)) :
                                          strip(splitlines(file.text)[j]) # <<>>}}

\* C9: both directory-association stores hold the same set of mappings.
C9_StoresAgree == mapping_set(atv_history_file) = mapping_set(assoc_file)

(***************************************************************************)
(* Properties of delete_venv.                                              *)
(***************************************************************************)
\* the root of the environment the tracking store holds for env_name:
\* Path(activate_path).parent.parent
tracked_root(tracking, env_name) ==
    parent(parent(get_env_from_tracking(tracking, env_name).value))

\* the step is a delete_venv of a tracked name whose root is "/" or home
DeleteOfUnsafeRoot ==
    /\ olast'.op = "delete_venv"
    /\ get_env_from_tracking(global_env_file, olast'.name).found
    /\ tracked_root(global_env_file, olast'.name) \in {root_dir, home}

\* C11: a delete_venv of a name whose environment root is the home directory
\* or "/" fails with the unsafe-path refusal, whatever the answer to the
\* confirmation, and leaves the disk and the tracking store as they were.
C11_UnsafeRootRefused ==
    [][DeleteOfUnsafeRoot =>
          /\ olast'.result = "unsafe"
          /\ existing' = existing
          /\ global_env_file' = global_env_file]_vars

\* C11 (amended): such a delete_venv fails and changes nothing; the refusal
\* is the unsafe-path one unless VIRTUAL_ENV is that very root, and then it
\* is the active-environment one.
C11_UnsafeRootNeverDeleted ==
    [][DeleteOfUnsafeRoot =>
          /\ olast'.result =
                 IF olast'.current_venv = tracked_root(global_env_file, olast'.name)
                 THEN "active" ELSE "unsafe"
          /\ existing' = existing
          /\ global_env_file' = global_env_file]_vars

\* a delete_venv was refused as unsafe while the script of the environment
\* was on disk
C11_Witness ==
    /\ olast.op = "delete_venv"
    /\ olast.result = "unsafe"
    /\ get_env_from_tracking(global_env_file, olast.name).value \in existing

\* the step is a delete_venv of a tracked name whose root VIRTUAL_ENV names
DeleteOfActive ==
    /\ olast'.op = "delete_venv"
    /\ get_env_from_tracking(global_env_file, olast'.name).found
    /\ olast'.current_venv = tracked_root(global_env_file, olast'.name)

\* C12: a delete_venv of the environment that is active (VIRTUAL_ENV equals
\* the root the tracking store gives for the name) is refused: the scripts on
\* disk and the tracking store stay as they were.
C12_ActiveRefused ==
    [][DeleteOfActive =>
          /\ olast'.result = "active"
          /\ existing' = existing
          /\ global_env_file' = global_env_file]_vars

\* a delete_venv of an environment at its conventional path, on disk and
\* confirmed, was refused as active
C12_Witness ==
    /\ olast.op = "delete_venv"
    /\ olast.result = "active"
    /\ olast.name \in Names
    /\ olast.current_venv = venvs_dir \o <<"/">> \o olast.name
    /\ activate_script_of(olast.name) \in existing

\* the entries of a tracking file whose name is not env_name, in file order
other_entries(file, env_name) ==
    LET other(line) == Len(entry_parts(line)) = 2 /\ entry_parts(line)[1] # env_name
    IN  SelectSeq(splitlines(file.text), other)

\* the step is a delete_venv that nothing refuses: the name is tracked, its
\* root is not the active environment and is neither "/" nor home, the
\* script is on disk, the deletion is confirmed and rmtree succeeds
DeleteNotRefused ==
    /\ olast'.op = "delete_venv"
    /\ get_env_from_tracking(global_env_file, olast'.name).found
    /\ olast'.current_venv # tracked_root(global_env_file, olast'.name)
    /\ tracked_root(global_env_file, olast'.name) \notin {root_dir, home}
    /\ get_env_from_tracking(global_env_file, olast'.name).value \in existing
    /\ olast'.confirmed
    /\ olast'.rmtree_ok

candidates(name, cwd, tracking) ==
    << joinpath(joinpath(cwd, name), bin_activate),
       joinpath(cwd, name),
       get_env_from_tracking(tracking, name).value,
       activate_script_of(name) >>

\* the candidates that are on disk, in the order of the rules
matches(name, cwd, tracking, scripts) ==
    LET on_disk(path) == path \in scripts
    IN  SelectSeq(candidates(name, cwd, tracking), on_disk)

\* the step is an activate_venv with a name
ActivateNamed == olast'.op = "activate_venv" /\ olast'.name # <<>>

\* C14: activate_venv(name) resolves name by the first rule that matches
\* among (a) a directory holding bin/activate, (b) a script file, (c) the
\* tracking store, (d) the conventional path: a "source" line it prints names
\* the first match, a call that completes prints one, and when no rule
\* matches the call fails as not found and prints no line.
C14_FirstMatchWins ==
    [][ActivateNamed =>
          LET found == matches(olast'.name, olast'.cwd, global_env_file, existing)
          IN  IF found = <<>>
              THEN olast'.result = "not_found" /\ ~olast'.emitted.found
              ELSE /\ olast'.result \in {"activated", "raised"}
                   /\ olast'.result = "activated" => olast'.emitted.found
                   /\ olast'.emitted.found =>
                          olast'.emitted.value = pat_source \o found[1]]_vars

\* an activate_venv printed the script of the directory given by a name that
\* the tracking store holds too, with the tracked script on disk
C14_Witness ==
    /\ olast.op = "activate_venv"
    /\ olast.result = "activated"
    /\ olast.name \in Names
    /\ tracked_and_present(global_env_file, existing, olast.name)
    /\ olast.emitted.value = pat_source \o joinpath(joinpath(olast.cwd, olast.name),
                                                    bin_activate)

\* C15: after every activate_venv call, last_venv holds the name of the most
\* recent activation: a call that activates (it completes and prints its
\* "source" line) leaves its name there, any other call leaves the file as
\* it was.
C15_LastVenvIsLastActivation ==
    [][olast'.op = "activate_venv" =>
          IF olast'.result = "activated"
          THEN last_venv_file' = [exists |-> TRUE, text |-> olast'.name]
          ELSE last_venv_file' = last_venv_file]_vars

\* the step is an activate_venv whose name resolves and one of whose
\* best-effort steps fails: the IDE-settings update returns False or raises,
\* or the shell-config update returns False
ActivateWithFailedStep ==
    /\ ActivateNamed
    /\ matches(olast'.name, olast'.cwd, global_env_file, existing) # <<>>
    /\ \/ olast'.settings \in {"False", "raised"}
       \/ olast'.shell = "False"

\* C20: when the name resolves, a failure of the IDE-settings update or of
\* the shell-config update does not abort activate_venv: last_venv and the
\* directory mapping are updated, the "source" line is printed and the call
\* reports success.
C20_BestEffortNonFatal ==
    [][ActivateWithFailedStep =>
          /\ olast'.result = "activated"
          /\ olast'.emitted.found
          /\ last_venv_file' = [exists |-> TRUE, text |-> olast'.name]
          /\ \E i \in mappings_of(atv_history_file', olast'.cwd) :
                 split1(splitlines(atv_history_file'.text)[i], ":")[2] = olast'.name]_vars

(***************************************************************************)
(* Properties of auto_activate_for_directory.                              *)
(***************************************************************************)
\* the history file holds the line that _update_directory_mapping(env_name)
\* writes in directory
has_mapping(file, directory, env_name) ==
    /\ file.exists
    /\ \E i \in 1..Len(splitlines(file.text)) :
           splitlines(file.text)[i] = directory \o <<":">> \o env_name

\* the step is an auto_activate_for_directory
AutoActivateStep == slast'.op = "auto_activate_for_directory"

\* C16: auto_activate_for_directory(d) prints an activation command when d
\* is mapped to an environment that is tracked, on disk and not the active
\* one, and it activates nothing: last_venv, the tracking store and a
\* mapping of d to a tracked environment on disk stay as they were.
C16_AutoActivateOnlySuggests ==
    [][AutoActivateStep =>
          /\ last_venv_file' = last_venv_file
          /\ global_env_file' = global_env_file
          /\ \A e \in Names :
                 /\ has_mapping(atv_history_file, slast'.dir, e)
                 /\ tracked_and_present(global_env_file, existing, e)
                 => /\ has_mapping(atv_history_file', slast'.dir, e)
                    /\ e # slast'.name => slast'.emitted.found]_vars

\* C17: when auto_activate_for_directory(d) finds d mapped to an environment
\* that has no tracking entry, it removes the mapping of d and keeps the
\* mappings of the other directories.
C17_AutoActivatePrunes ==
    [][AutoActivateStep =>
          \A e \in Names :
              /\ has_mapping(atv_history_file, slast'.dir, e)
              /\ ~get_env_from_tracking(global_env_file, e).found
              => /\ ~has_mapping(atv_history_file', slast'.dir, e)
                 /\ \A d \in Dirs \ {slast'.dir}, other \in Names :
                        has_mapping(atv_history_file, d, other)
                        => has_mapping(atv_history_file', d, other)]_vars

(***************************************************************************)
(* The block an install appends.                                           *)
(***************************************************************************)
\* the content the install that ran last appended its block to: the file it
\* read, after the removal of the existing integration when it reinstalled
appended_to ==
    IF last.response THEN remove_existing(last.before.text, last.shell)
    ELSE last.before.text

\* C18: an install that writes its block leaves the lines of the
\* pre-existing content, stripped of its trailing whitespace, followed by
\* exactly one blank line, the marker line and the payload line, and the
\* file ends with one newline; so for every pre-existing content, the empty
\* one included.
C18_AppendedBlock ==
    last.op \in InstallOps /\ last.result = "installed" =>
        /\ splitlines(config.text)
               = splitlines(rstrip(appended_to))
                     \o << <<>>, ve_marker, source_line(last.shell) >>
        /\ config.text[Len(config.text)] = "\n"
        /\ config.text[Len(config.text) - 1] # "\n"

(***************************************************************************)
(* The scans on malformed input.                                           *)
(***************************************************************************)
\* every line of the text result is a line of the text input
lines_from(result, input) ==
    \A i \in 1..Len(splitlines(result)) :
        \E j \in 1..Len(splitlines(input)) : splitlines(result)[i] = splitlines(input)[j]

\* a line of a store that is no "key<separator>value" pair
malformed(line, separator) == Len(split1(strip(line), separator)) # 2

\* C19: on any lines (an empty file, the marker alone, braces that never
\* close, store lines without a separator or with more fields) the scan
\* of clean_zshrc and the two lookups end with a result and do not raise:
\* clean_zshrc writes a file made of lines it read, a lookup returns None
\* (nothing found, no value) or the value of a line of the store.
C19_ScansAreTotal ==
    /\ last.op = "clean_zshrc" /\ last.before.exists =>
           /\ last.result = "cleaned"
           /\ config.exists
           /\ lines_from(config.text, last.before.text)
    /\ slast.op = "get_env_from_tracking" =>
           /\ ~slast.emitted.found => slast.emitted.value = <<>>
           /\ slast.emitted.found =>
                  \E i \in 1..Len(splitlines(slast.before.text)) :
                      strip(splitlines(slast.before.text)[i])
                          = slast.name \o <<" ">> \o slast.emitted.value
    /\ slast.op = "get_auto_activate_env" =>
           /\ ~slast.emitted.found => slast.emitted.value = <<>>
           /\ slast.emitted.found =>
                  has_mapping(slast.before, slast.dir, slast.emitted.value)

\* clean_zshrc ran on a file whose only line opens a brace that never
\* closes, and a lookup then ran on a store that holds a malformed line
C19_Witness ==
    /\ last.op = "clean_zshrc"
    /\ last.before.text = <<"s","a","v","e","(",")"," ","{">>
    /\ slast.op \in {"get_env_from_tracking", "get_auto_activate_env"}
    /\ slast.before.exists
    /\ \E i \in 1..Len(splitlines(slast.before.text)) :
           malformed(splitlines(slast.before.text)[i],
                     IF slast.op = "get_env_from_tracking" THEN " " ELSE ":")

(***************************************************************************)
(* Properties of the line scan of clean_zshrc on files with regions.       *)
(***************************************************************************)
\* { count minus } count of a line
brace_delta(line) == count(line, "{") - count(line, "}")

\* the brace balance of lines i..j
RECURSIVE balance(_, _, _)
balance(lines, i, j) ==
    IF j < i THEN 0 ELSE balance(lines, i, j - 1) + brace_delta(lines[j])

\* the first line from i on at which the balance counted from line i is <= 0,
\* 0 when it stays positive to the end of the file
region_end(lines, i) ==
    LET ends == {j \in i..Len(lines) : balance(lines, i, j) <= 0}
    IN  IF ends = {} THEN 0 ELSE CHOOSE j \in ends : \A k \in ends : j <= k

\* the lines of the file clean_zshrc read, and the indices it did not keep
scanned_lines == splitlines(last.before.text)

removed_lines == clean_result(last.before.text).removed

Cleaned == last.op = "clean_zshrc" /\ last.result = "cleaned"

\* line i is the first line of the file that defines the function ve, in a
\* file without marker lines
first_definition(lines, i) ==
    /\ defines_ve_function(lines[i])
    /\ \A k \in 1..Len(lines) : ~is_marker_line(lines[k])
    /\ \A k \in 1..(i - 1) : ~defines_ve_function(lines[k])

\* C21: function-body mode: the region of a line that defines ve runs from
\* that line to the line where the brace balance counted from it reaches
\* <= 0 (the definition line itself when its own balance is <= 0); those
\* lines are removed and the first line after them is outside the region and
\* is kept.
C21_FunctionRegionEnds ==
    Cleaned =>
        \A i \in 1..Len(scanned_lines) :
            (first_definition(scanned_lines, i) /\ region_end(scanned_lines, i) # 0)
            => LET e == region_end(scanned_lines, i)
               IN  /\ \A k \in i..e : k \in removed_lines
                   /\ (e + 1 <= Len(scanned_lines)
                        /\ ~defines_ve_function(scanned_lines[e + 1]))
                       => e + 1 \notin removed_lines

\* C22: once function-body mode is entered, every following line is handled
\* by function-body mode alone until the balance ends it: the line's braces
\* adjust the running balance, the mode ends exactly when the balance is
\* <= 0, and marker mode is neither entered nor left.
C22_FunctionModeAlone ==
    Cleaned =>
        \A j \in 1..Len(scanned_lines) :
            LET st == clean_prefix(scanned_lines, j - 1)
                nx == clean_prefix(scanned_lines, j)
            IN  st.in_ve_function
                => /\ nx.brace_count = st.brace_count + brace_delta(scanned_lines[j])
                   /\ nx.in_ve_function = (nx.brace_count > 0)
                   /\ nx.in_ve_section = st.in_ve_section
                   /\ j \in removed_lines

\* the line refers to the command ve or to its helper _ve_auto_activate
references_ve(line) == contains(line, pat_ve) \/ contains(line, pat_auto_activate)

\* line i is a blank line met in marker mode, outside a function body
blank_in_section(lines, i) ==
    /\ strip(lines[i]) = <<>>
    /\ clean_prefix(lines, i - 1).in_ve_section
    /\ ~clean_prefix(lines, i - 1).in_ve_function

\* line i has a next line that is not blank, is no comment and does not
\* refer to ve
followed_by_other_content(lines, i) ==
    /\ i + 1 <= Len(lines)
    /\ strip(lines[i + 1]) # <<>>
    /\ ~startswith(strip(lines[i + 1]), pat_hash)
    /\ ~references_ve(lines[i + 1])

\* C23: in marker mode a blank line ends the region only if the next line
\* exists, is not blank, does not start with a comment marker and does not
\* refer to ve or its helpers; in every other case (a blank last line
\* included) the blank line is still inside the region and is removed.
C23_BlankLineInSection ==
    Cleaned =>
        \A i \in 1..Len(scanned_lines) :
            blank_in_section(scanned_lines, i)
            => /\ ~clean_prefix(scanned_lines, i).in_ve_section
                    => followed_by_other_content(scanned_lines, i)
               /\ ~followed_by_other_content(scanned_lines, i)
                    => /\ clean_prefix(scanned_lines, i).in_ve_section
                       /\ i \in removed_lines

\* a file whose section holds a blank line that is removed (a blank line
\* follows it) and a blank line that ends the section and is kept
C23_Witness ==
    /\ Cleaned
    /\ \E i, j \in 1..Len(scanned_lines) :
           /\ blank_in_section(scanned_lines, i)
           /\ ~followed_by_other_content(scanned_lines, i)
           /\ i \in removed_lines
           /\ blank_in_section(scanned_lines, j)
           /\ followed_by_other_content(scanned_lines, j)
           /\ j \notin removed_lines
           /\ config.text # <<>>

\* the braces of a line as the scan counts them: a marker line is skipped
\* before its braces are counted
counted_delta(line) == IF is_marker_line(line) THEN 0 ELSE brace_delta(line)

RECURSIVE counted_balance(_, _, _)
counted_balance(lines, i, j) ==
    IF j < i THEN 0 ELSE counted_balance(lines, i, j - 1) + counted_delta(lines[j])

\* line i is a definition of ve whose brace balance stays positive to the
\* end of the file
open_to_end(lines, i) ==
    /\ defines_ve_function(lines[i])
    /\ region_end(lines, i) = 0

\* line i is the last line of the file that the scan takes for a definition
\* of ve, and the balance counted from it stays positive to the end of the
\* file
last_open_to_end(lines, i) ==
    /\ is_ve_function_line(lines[i])
    /\ ~is_marker_line(lines[i])
    /\ \A k \in (i + 1)..Len(lines) : ~is_ve_function_line(lines[k])
    /\ \A j \in i..Len(lines) : counted_balance(lines, i, j) > 0

\* C24 as stated: when the brace balance of the function ve stays positive to
\* the end of the file, the whole file is the region and clean_zshrc keeps
\* no line of it.
C24_UnbalancedKeepsNoLine ==
    (Cleaned /\ \E i \in 1..Len(scanned_lines) : open_to_end(scanned_lines, i))
    => config.text = <<>>

\* C24 as amended: when the balance counted from the last definition line of
\* ve stays positive to the end of the file, the region runs from that line
\* to the end of the file: clean_zshrc keeps none of these lines, and what it
\* writes is made of lines before the definition line only.
C24_UnbalancedRunsToEnd ==
    Cleaned =>
        \A i \in 1..Len(scanned_lines) :
            last_open_to_end(scanned_lines, i)
            => /\ \A k \in i..Len(scanned_lines) : k \in removed_lines
               /\ Len(splitlines(config.text)) <= i - 1
               /\ \A n \in 1..Len(splitlines(config.text)) :
                     \E k \in 1..(i - 1) : splitlines(config.text)[n] = scanned_lines[k]

\* an unclosed definition of ve after a line of the user's, with lines after
\* it: the user's line is what remains
C24_Witness ==
    /\ Cleaned
    /\ \E i \in 2..Len(scanned_lines) :
           /\ last_open_to_end(scanned_lines, i)
           /\ i < Len(scanned_lines)
           /\ config.text = join(SubSeq(scanned_lines, 1, i - 1))
           /\ config.text # <<>>

\* the file holds two marker blocks: two marker lines, and between them a
\* blank line followed by a line of the user's, which ends the first block
two_blocks(lines) ==
    \E m1, m2 \in 1..Len(lines) :
        /\ m1 < m2
        /\ {k \in 1..Len(lines) : is_marker_line(lines[k])} = {m1, m2}
        /\ \A k \in 1..Len(lines) : ~defines_ve_function(lines[k])
        /\ \E b \in (m1 + 1)..(m2 - 2) :
              /\ strip(lines[b]) = <<>>
              /\ followed_by_other_content(lines, b)

RECURSIVE entries_not_of(_, _)
entries_not_of(entries, env_name) ==
    IF entries = <<>> THEN <<>>
    ELSE IF Head(entries)[1] # env_name
    THEN <<Head(entries)>> \o entries_not_of(Tail(entries), env_name)
    ELSE entries_not_of(Tail(entries), env_name)

Reinstalled ==
    /\ last.op = "install_shell_integration"
    /\ last.result = "installed"
    /\ last.response

\* line i belongs to the integration: it is a marker line, the payload that
\* follows a marker line (a line that sources an integration script), or a
\* line that names the integration script of shell
integration_line(lines, i, shell) ==
    \/ contains(lines[i], ve_marker)
    \/ /\ i > 1
       /\ contains(lines[i - 1], ve_marker)
       /\ \E sh \in Shells : strip(lines[i]) = source_line(sh)
    \/ contains(lines[i], target_script(shell))

\* the lines among the first n that are not blank and do not belong to the
\* integration, in order
RECURSIVE other_lines(_, _, _)
other_lines(lines, n, shell) ==
    IF n = 0 THEN <<>>
    ELSE IF strip(lines[n]) = <<>> \/ integration_line(lines, n, shell)
    THEN other_lines(lines, n - 1, shell)
    ELSE Append(other_lines(lines, n - 1, shell), lines[n])

\* the lines of the file that come before the block the install appended (a
\* blank line, the marker line and the payload line)
lines_before_block(text) == SubSeq(splitlines(text), 1, Len(splitlines(text)) - 3)

\* C28: a confirmed reinstall removes only the lines of the previous block
\* (marker line and payload) and the lines sourcing the integration script:
\* every other line of the file is kept verbatim and in order, wherever it
\* sits relative to the block (blank lines apart).
C28_ReinstallKeepsOtherLines ==
    Reinstalled =>
        other_lines(lines_before_block(config.text),
                    Len(lines_before_block(config.text)), last.shell)
            = other_lines(splitlines(last.before.text),
                          Len(splitlines(last.before.text)), last.shell)

\* the mapping lines of directory in a store, in order: the lines that map
\* the directory to an environment name
mapping_lines(file, directory) ==
    LET of_directory(line) == \E n \in Names : line = directory \o <<":">> \o n
    IN  SelectSeq(splitlines(file.text), of_directory)

\* C29: _update_directory_mapping for directory d leaves, in both stores,
\* the mapping lines of every other directory present, unchanged and in
\* order, also for paths that hold the separator ':'.
C29_DirectoryUpsertFrame ==
    [][slast'.op = "update_directory_mapping" =>
          \A other \in Dirs \ {slast'.dir} :
              /\ mapping_lines(atv_history_file', other)
                    = mapping_lines(atv_history_file, other)
              /\ mapping_lines(assoc_file', other) = mapping_lines(assoc_file, other)]_vars

(***************************************************************************)
(* Properties of a failed activation.                                      *)
(***************************************************************************)
\* the step is an activate_venv that fails: no name is given, or no rule
\* resolves the name to an activate script on disk
ActivateFails ==
    /\ olast'.op = "activate_venv"
    /\ \/ olast'.name = <<>>
       \/ matches(olast'.name, olast'.cwd, global_env_file, existing) = <<>>

\* C30: a failed activate_venv(name) (empty name, name not resolvable,
\* resolved script missing) leaves the Last-Activated marker and both
\* directory-association stores unchanged and prints no "source" line.
C30_FailedActivationChangesNothing ==
    [][ActivateFails =>
          /\ olast'.result \in {"usage", "not_found", "no_script"}
          /\ last_venv_file' = last_venv_file
          /\ atv_history_file' = atv_history_file
          /\ assoc_file' = assoc_file
          /\ ~olast'.emitted.found]_vars

\* an activation of a name that no rule resolves, after an activation of
\* another name wrote the marker and the directory mappings
C30_Witness ==
    /\ olast.op = "activate_venv"
    /\ olast.result = "not_found"
    /\ last_venv_file.exists
    /\ last_venv_file.text # olast.name
    /\ atv_history_file.exists
    /\ assoc_file.exists
    /\ ~olast.emitted.found

(***************************************************************************)
(* Properties of concurrent upserts of the tracking store.                 *)
(***************************************************************************)
AllDone == \A p \in Procs : procs[p].pc = "done"

\* the entry of run p is in the tracking store
entry_stored(p) ==
    get_env_from_tracking(global_env_file, procs[p].name)
        = [found |-> TRUE, value |-> procs[p].value]

\* C27: two upserts for different names run with their reads and writes
\* interleaved and no lock: when both are done the store is the one the last
\* writer wrote, that is its upsert applied to the file as it read it, so
\* the entry of the other run is in the store only if the last writer read
\* the file after the other run wrote it.
C27_LastWriterWins ==
    AllDone =>
        /\ slast.op = "update_global_tracking"
        /\ global_env_file
              = update_global_tracking(slast.before, slast.name, slast.value)
        /\ \A p \in Procs :
              /\ procs[p].name = slast.name => entry_stored(p)
              /\ procs[p].name # slast.name
                    => (entry_stored(p)
                          <=> get_env_from_tracking(slast.before, procs[p].name)
                                 = [found |-> TRUE, value |-> procs[p].value])

\* a lost update: both runs are done and the store lacks the entry of the
\* run that wrote first
C27_Witness ==
    /\ AllDone
    /\ \E p \in Procs :
          /\ procs[p].name # slast.name
          /\ ~entry_stored(p)
          /\ ~get_env_from_tracking(global_env_file, procs[p].name).found

====
